---- MODULE Spec2Model ----
(***************************************************************************)
(* Model of the game-launch orchestrator of Hold-Craft-Launcher:           *)
(* HCLJavaLauncher (src/src/core/JavaLauncher.js).                         *)
(*                                                                         *)
(* Strings that the code takes apart (version strings) are sequences of    *)
(* one-character strings; other strings are TLA+ strings.                  *)
(***************************************************************************)
EXTENDS Integers, Sequences, FiniteSets, TLC

(***************************************************************************)
(* Bounds of the model                                                     *)
(***************************************************************************)
\* number of OS processes the model lets the launcher spawn
MaxProcs == 1
\* number of launchGame calls that may be in flight at the same time
MaxCalls == 1
\* number of records the model lets gameOutput grow to
MaxOutput == 2

(***************************************************************************)
(* JavaScript values                                                       *)
(***************************************************************************)
\* null / undefined, where a string or an identifier is expected
Null == "null"
\* the number NaN (no parsed number is negative: parseInt is only applied to
\* strings without a sign)
NaN == 0 - 1

Digits == <<"0", "1", "2", "3", "4", "5", "6", "7", "8", "9">>

IsDigit(ch) == \E i \in 1..10 : Digits[i] = ch

DigitVal(ch) == (CHOOSE i \in 1..10 : Digits[i] = ch) - 1

\* length of the longest prefix of s made of digits
RECURSIVE DigitPrefixLen(_)
DigitPrefixLen(s) ==
    IF s = <<>> \/ ~IsDigit(Head(s)) THEN 0 ELSE 1 + DigitPrefixLen(Tail(s))

\* value of a sequence of digits
RECURSIVE DigitsVal(_)
DigitsVal(s) ==
    IF s = <<>> THEN 0 ELSE DigitsVal(SubSeq(s, 1, Len(s) - 1)) * 10 + DigitVal(s[Len(s)])

\* parseInt(s) for a string without leading blanks or sign: the value of the
\* leading digits, NaN when there is none
ParseInt(s) ==
    IF DigitPrefixLen(s) = 0 THEN NaN ELSE DigitsVal(SubSeq(s, 1, DigitPrefixLen(s)))

\* Number(s) for such a string: every character has to be a digit
ToNumberStr(s) ==
    IF s = <<>> THEN 0
    ELSE IF DigitPrefixLen(s) = Len(s) THEN DigitsVal(s) ELSE NaN

\* s.includes('.')
IncludesDot(s) == \E i \in 1..Len(s) : s[i] = "."

\* s.split('.')
RECURSIVE SplitDot(_)
SplitDot(s) ==
    IF ~IncludesDot(s) THEN <<s>>
    ELSE LET i == CHOOSE k \in 1..Len(s) : s[k] = "." /\ \A j \in 1..(k - 1) : s[j] # "."
         IN  <<SubSeq(s, 1, i - 1)>> \o SplitDot(SubSeq(s, i + 1, Len(s)))

\* A version as javaInfo.version holds it: a number, or the string itself
\* when parseInt gave NaN or 0 (parseInt(version) || version)
NumV(n) == [k |-> "num", n |-> n, s |-> <<>>]
StrV(s) == [k |-> "str", n |-> 0, s |-> s]

\* ToNumber of a version value
ToNumber(v) == IF v.k = "num" THEN v.n ELSE ToNumberStr(v.s)

\* v < n, v >= n and v === n of JavaScript for a version value v and a number n
JsLess(v, n) == ToNumber(v) # NaN /\ ToNumber(v) < n
JsGeq(v, n) == ToNumber(v) # NaN /\ ToNumber(v) >= n
JsStrictEq(v, n) == v.k = "num" /\ v.n = n

(***************************************************************************)
(* parseJavaVersion: a banner is a sequence of lines; a line is what the   *)
(* two regular expressions capture in it (<<>>: no match) and the set of   *)
(* lower-case keywords it contains                                         *)
(***************************************************************************)
Line(quoted, build, kws) == [quoted |-> quoted, build |-> build, kws |-> kws]

\* lowerLine.includes(kw); 'openjdk' and 'adoptopenjdk' contain 'jdk'
LineIncludes(line, kw) ==
    \/ kw \in line.kws
    \/ kw = "jdk" /\ (line.kws \cap {"openjdk", "adoptopenjdk"}) # {}
    \/ kw = "openjdk" /\ "adoptopenjdk" \in line.kws

\* lines 185-199: the version a line sets, <<>> when the line has no match
LineVersion(line) ==
    LET m == IF line.quoted # <<>> THEN line.quoted ELSE line.build
    IN  IF m = <<>> THEN <<>>
        ELSE IF IncludesDot(m)
             THEN LET parts == SplitDot(m)
                  IN  IF parts[1] = <<"1">> THEN parts[2] ELSE parts[1]
             ELSE m

\* lines 202-215: the vendor a line sets, "" when it sets none
LineVendor(line) ==
    IF LineIncludes(line, "openjdk") THEN "OpenJDK"
    ELSE IF LineIncludes(line, "java(tm)") \/ LineIncludes(line, "oracle") THEN "Oracle"
    ELSE IF LineIncludes(line, "adoptopenjdk") \/ LineIncludes(line, "adoptium") THEN "Adoptium"
    ELSE IF LineIncludes(line, "microsoft") THEN "Microsoft"
    ELSE IF LineIncludes(line, "zulu") THEN "Zulu"
    ELSE IF LineIncludes(line, "amazon") THEN "Amazon Corretto"
    ELSE ""

\* the loop of lines 181-230, from the values before the banner's lines
RECURSIVE ParseLines(_, _)
ParseLines(lines, acc) ==
    IF lines = <<>> THEN acc
    ELSE LET line == Head(lines)
             ver == IF line.quoted # <<>> \/ line.build # <<>> THEN LineVersion(line) ELSE acc.version
             ven == IF LineVendor(line) # "" THEN LineVendor(line) ELSE acc.vendor
             bit == IF LineIncludes(line, "64-bit") THEN "64-bit"
                    ELSE IF LineIncludes(line, "32-bit") THEN "32-bit" ELSE acc.bitness
             ty0 == IF LineIncludes(line, "openjdk") THEN "JDK" ELSE acc.type
             typ == IF LineIncludes(line, "jdk") THEN "JDK"
                    ELSE IF LineIncludes(line, "jre") THEN "JRE" ELSE ty0
         IN  ParseLines(Tail(lines),
                        [version |-> ver, vendor |-> ven, bitness |-> bit, type |-> typ])

\* the null that parseJavaVersion, checkJavaVersion and
\* getRecommendedJavaVersion return instead of a javaInfo
NullInfo ==
    [path |-> "", version |-> StrV(<<>>), vendor |-> "", bitness |-> "", type |-> "",
     isValid |-> FALSE]

\* parseJavaVersion(output, javaPath): null when no version was found
parseJavaVersion(output, javaPath) ==
    LET r == ParseLines(output, [version |-> <<>>, vendor |-> "", bitness |-> "64-bit", type |-> "JRE"])
    IN  IF r.version = <<>> THEN NullInfo
        ELSE [path |-> javaPath,
              version |-> IF ParseInt(r.version) \in {NaN, 0} THEN StrV(r.version)
                          ELSE NumV(ParseInt(r.version)),
              vendor |-> r.vendor, bitness |-> r.bitness, type |-> r.type, isValid |-> TRUE]

\* compareJavaVersions(a, b) < 0, = 0, > 0 as b - a with parseInt(v) || 0
VersionRank(v) ==
    IF v.k = "num" THEN v.n
    ELSE IF ParseInt(v.s) = NaN THEN 0 ELSE ParseInt(v.s)

compareJavaVersions(versionA, versionB) == VersionRank(versionB) - VersionRank(versionA)

(***************************************************************************)
(* The host: the runtimes installed on the machine, each with the banner   *)
(* that `java -version` prints, the platform, and the installed versions   *)
(***************************************************************************)
\* Java 5: every line carries 1.5.0
Banner5 ==
    << Line(<<"1", ".", "5", ".", "0">>, <<>>, {"java"}),
       Line(<<>>, <<"1", ".", "5", ".", "0", "-", "b">>, {"java(tm)"}),
       Line(<<>>, <<"1", ".", "5", ".", "0", "-", "b">>, {"java"}) >>

\* Oracle Java 8: the VM line carries the HotSpot build 25.x
Banner8 ==
    << Line(<<"1", ".", "8", ".", "0">>, <<>>, {"java"}),
       Line(<<>>, <<"1", ".", "8", ".", "0", "-", "b">>, {"java(tm)"}),
       Line(<<>>, <<"2", "5", ".", "3", "-", "b">>, {"java", "java(tm)", "64-bit"}) >>

\* OpenJDK 17
Banner17 ==
    << Line(<<"1", "7", ".", "0", ".", "1">>, <<>>, {"openjdk"}),
       Line(<<>>, <<"1", "7", ".", "0", ".", "1", "+", "1">>, {"openjdk"}),
       Line(<<>>, <<"1", "7", ".", "0", ".", "1", "+", "1">>, {"openjdk", "64-bit"}) >>

\* a one-line banner of a Java 8 runtime
Banner8Short == << Line(<<"1", ".", "8", ".", "0">>, <<>>, {"openjdk"}) >>

\* output without a version
BannerNone == << Line(<<>>, <<>>, {"error"}) >>

\* a program whose banner names its version by a word
BannerBeta == << Line(<<"b", "e", "t", "a">>, <<>>, {"java"}) >>

\* a banner whose first line says openjdk and whose second line names Zulu
BannerZulu ==
    << Line(<<"1", "1", ".", "0">>, <<>>, {"openjdk"}),
       Line(<<>>, <<"1", "1", ".", "0", "+", "9">>, {"zulu", "64-bit"}) >>

\* the paths of the model; "/missing" has no executable, the command of
\* "/hung" never ends
JavaPaths ==
    {"/j5", "/j8", "/j8s", "/j17", "/jzulu", "/jbeta", "/notjava", "/missing", "/hung"}

\* exec(command, callback) has no timeout: the callback of a command that
\* never ends is never called and the promise of execCommand never settles
Hangs(javaPath) == javaPath = "/hung"

\* execCommand(`"${javaPath}" -version`) of a host: <<>> when the command
\* fails (the promise rejects), else the banner
ExecVersion(javaPath) ==
    CASE javaPath = "/j5" -> Banner5
      [] javaPath = "/j8" -> Banner8
      [] javaPath = "/j8s" -> Banner8Short
      [] javaPath = "/j17" -> Banner17
      [] javaPath = "/jzulu" -> BannerZulu
      [] javaPath = "/jbeta" -> BannerBeta
      [] javaPath = "/notjava" -> BannerNone
      [] OTHER -> <<>>

\* the hosts of the model: what getCommonJavaPaths finds, what `which java`
\* prints (Null: nothing) and os.platform()
Hosts ==
    { [common |-> <<"/j5">>, which |-> Null, platform |-> "linux"],
      [common |-> <<"/j8s", "/j17">>, which |-> "/j17", platform |-> "win32"] }

\* configManager.getConfig(): no custom runtime path, default memory
config == [javaPath |-> "", memory |-> 1024, gameDirectory |-> "/game"]

\* the versions whose manifest <gameDir>/versions/<id>/<id>.json exists
InstalledVersions == {"1.20"}

\* the parsed manifests: id, assets index and, per library, the path of
\* lib.downloads.artifact ("": the library has no artifact)
Manifest(id) ==
    IF id = "1.20"
    THEN [id |-> id, assets |-> "5", libraries |-> <<"a.jar", "", "b.jar">>]
    ELSE [id |-> id, assets |-> "", libraries |-> <<"old.jar">>]

\* the values the host may have stored in the launcher's currentVersionInfo
\* property, which the class reads and never assigns
VersionInfos == {"1.20", "1.19"}

(***************************************************************************)
(* Launch requests                                                         *)
(***************************************************************************)
NoAccount == [present |-> FALSE, username |-> "", type |-> "", accessToken |-> "", uuid |-> ""]
Steve == [present |-> TRUE, username |-> "Steve", type |-> "offline", accessToken |-> "", uuid |-> ""]
NoName == [present |-> TRUE, username |-> "", type |-> "offline", accessToken |-> "", uuid |-> ""]
MsNoToken == [present |-> TRUE, username |-> "Alex", type |-> "microsoft", accessToken |-> "", uuid |-> "u-alex"]

Req(account, versionId, javaPath, memory) ==
    [account |-> account, version |-> [id |-> versionId], javaPath |-> javaPath, memory |-> memory]

\* the launchConfig objects of the model (javaPath "": none, memory 0: none)
LaunchConfigs ==
    { Req(Steve, "1.20", "", 2048),
      Req(Steve, "1.20", "/j17", 0),
      Req(Steve, "1.20", "/j5", 2048),
      Req(Steve, "1.20", "/missing", 2048),
      Req(Steve, "0.1", "/j17", 2048),
      Req(NoAccount, "1.20", "/j17", 2048),
      Req(NoAccount, "1.20", "", 2048),
      Req(NoName, "1.20", "/j17", 2048),
      Req(MsNoToken, "1.20", "/j17", 2048) }

\* error messages (the source's are Chinese; the model names them)
ErrRunning == "game is running"
ErrNoJava == "no Java runtime found"
ErrJavaPath == "invalid Java path"
ErrJavaOld == "Java version too low"
ErrNotInstalled == "game version not installed"
ErrAccount == "account incomplete"
ErrToken == "Microsoft account needs access token"
ErrType == "TypeError"
ErrSpawn == "spawn failed"

(***************************************************************************)
(* State                                                                   *)
(***************************************************************************)
VARIABLES
    host,               \* the machine the launcher runs on
    isRunning,          \* this.isRunning
    gameProcess,        \* this.gameProcess: 0 is null, else the child process object
    gameOutput,         \* this.gameOutput
    javaVersions,       \* this.javaVersions
    javaCache,          \* this.javaCache
    currentVersionInfo, \* this.currentVersionInfo: Null is undefined, else a version id
    detecting,          \* TRUE while a detectJavaVersions call awaits its probes
    calls,              \* the launchGame calls, by slot
    procs,              \* the child process objects spawn has returned
    emitted,            \* the events the last step emitted, in order
    log,                \* the lifecycle events emitted so far, with their process
    ret,                \* what stopGame / forceKillGame returned in the last step
    sent,               \* the signal the last step sent, and the child it was sent to
    done,               \* how a launchGame call ended in the last step
    result,             \* the last direct call of a method that returns a value
    now                 \* Date.now(), the host's clock

vars == <<host, isRunning, gameProcess, gameOutput, javaVersions, javaCache,
          currentVersionInfo, detecting, calls, procs, emitted, log, ret, sent, done,
          result, now>>

Procs == DOMAIN procs
Slots == DOMAIN calls

\* a launchGame call: pc "idle" (no call in the slot), "validate" (awaiting
\* validateJava and validateVersion) or "spawn" (validateVersion has resolved)
IdleCall ==
    [pc |-> "idle", cfg |-> Req(NoAccount, "", "", 0), javaInfo |-> NullInfo, versionInfo |-> Null]

\* how a launchGame call ended: error "" when it returned {success: true},
\* else the message of the error it threw; spawned: it called
\* spawnGameProcess; proc: the child process it started (0: none)
\* args: the arguments it handed to child_process.spawn
NoReturn ==
    [slot |-> 0, cfg |-> Req(NoAccount, "", "", 0), javaInfo |-> NullInfo, error |-> "",
     spawned |-> FALSE, proc |-> 0, args |-> <<>>]

Return(c, error, spawned, proc, args) ==
    [slot |-> c, cfg |-> calls[c].cfg, javaInfo |-> calls[c].javaInfo, error |-> error,
     spawned |-> spawned, proc |-> proc, args |-> args]

\* procs[p], the state of child process object p: "unused" (not spawned
\* yet), "alive" (the OS process runs), "spawnerr" (the OS could not create
\* the process, the 'error' event is pending), "errored" ('error' was
\* emitted, 'close' is pending) or "closed" ('close' was emitted)
ProcStates == {"unused", "alive", "spawnerr", "errored", "closed"}

\* no signal was sent
NoSignal == [proc |-> 0, signal |-> ""]

\* what a call of op returned; NoRet: the step was no stopGame / forceKillGame
Ret(op, value) == [op |-> op, value |-> value]
NoRet == Ret("", FALSE)

\* a direct call of method op: its arguments, the value it returned and the
\* error it threw ("": none); NoResult: no such call yet
Result(op, input, value, threw) == [op |-> op, input |-> input, value |-> value, threw |-> threw]
NoResult == Result("", <<>>, <<>>, "")

\* child.pid: undefined when the OS process was never created
Pid(p) == IF procs[p] \in {"spawnerr", "errored"} THEN 0 ELSE p

\* an emitted event: its name, the child process object whose listener or
\* whose launch emitted it (0: none), and its payload (pid 0: undefined);
\* data is the output text an output or diagnostic event carries
Event(type, proc, pid, code, kind, text) ==
    [type |-> type, proc |-> proc, pid |-> pid, code |-> code, kind |-> kind, text |-> text,
     data |-> {}]

Init ==
    /\ host \in Hosts
    /\ isRunning = FALSE
    /\ gameProcess = 0
    /\ gameOutput = <<>>
    /\ javaVersions = <<>>
    /\ javaCache = [p \in JavaPaths |-> NullInfo]
    /\ currentVersionInfo = Null
    /\ detecting = TRUE
    /\ calls = [c \in 1..MaxCalls |-> IdleCall]
    /\ procs = [p \in 1..MaxProcs |-> "unused"]
    /\ emitted = <<>>
    /\ log = {}
    /\ ret = NoRet
    /\ sent = NoSignal
    /\ done = NoReturn
    /\ result = NoResult
    /\ now = 0

(***************************************************************************)
(* Runtime discovery                                                       *)
(***************************************************************************)
\* checkJavaVersion(javaPath): the cached javaInfo, else the parsed banner of
\* the runtime, null when the command fails or has no version
checkJavaVersion(cache, javaPath) ==
    IF cache[javaPath].isValid THEN cache[javaPath]
    ELSE IF ExecVersion(javaPath) = <<>> THEN NullInfo
    ELSE parseJavaVersion(ExecVersion(javaPath), javaPath)

\* checkJavaVersion(javaPath) settles: the path is cached or its command ends
ProbeSettles(cache, javaPath) == cache[javaPath].isValid \/ ~Hangs(javaPath)

\* the paths detectJavaVersions probes on host h
ProbedPaths(h) == h.common \o (IF h.which = Null THEN <<>> ELSE <<h.which>>)

\* the javaCache after checkJavaVersion(javaPath)
CacheAfter(cache, javaPath) ==
    IF checkJavaVersion(cache, javaPath).isValid
    THEN [cache EXCEPT ![javaPath] = checkJavaVersion(cache, javaPath)]
    ELSE cache

\* findJavaInPath(): null when no command prints a path
findJavaInPath(cache, h) ==
    IF h.which = Null THEN NullInfo ELSE checkJavaVersion(cache, h.which)

\* the settled results of detectionPromises, in order
RECURSIVE ProbeAll(_, _)
ProbeAll(cache, paths) ==
    IF paths = <<>> THEN <<>>
    ELSE <<checkJavaVersion(cache, Head(paths))>> \o ProbeAll(cache, Tail(paths))

\* UniqueVersions giving up at the first probe without a result
RECURSIVE UniqueVersionsStopAtFailure(_, _)
UniqueVersionsStopAtFailure(results, acc) ==
    IF results = <<>> THEN acc
    ELSE IF ~Head(results).isValid THEN acc
    ELSE UniqueVersionsStopAtFailure(Tail(results), Append(acc, Head(results)))

\* lines 51-60: the non-null results, the first of each (version, path) key
RECURSIVE UniqueVersions(_, _)
UniqueVersions(results, acc) ==
    IF results = <<>> THEN acc
    ELSE LET r == Head(results)
             has == \E i \in 1..Len(acc) : acc[i].version = r.version /\ acc[i].path = r.path
         IN  UniqueVersions(Tail(results), IF r.isValid /\ ~has THEN Append(acc, r) ELSE acc)

\* Array.prototype.sort with compareJavaVersions: stable
RECURSIVE InsertJava(_, _)
InsertJava(sorted, x) ==
    IF sorted = <<>> THEN <<x>>
    ELSE IF compareJavaVersions(Head(sorted).version, x.version) <= 0
         THEN <<Head(sorted)>> \o InsertJava(Tail(sorted), x)
         ELSE <<x>> \o sorted

RECURSIVE SortJava(_)
SortJava(list) ==
    IF list = <<>> THEN <<>>
    ELSE InsertJava(SortJava(SubSeq(list, 1, Len(list) - 1)), list[Len(list)])

\* the list detectJavaVersions computes on host h
DetectedVersions(cache, h) ==
    SortJava(UniqueVersions(ProbeAll(cache, h.common) \o <<findJavaInPath(cache, h)>>, <<>>))

RECURSIVE CacheAfterAll(_, _)
CacheAfterAll(cache, paths) ==
    IF paths = <<>> THEN cache
    ELSE CacheAfterAll(CacheAfter(cache, Head(paths)), Tail(paths))

\* detectJavaVersions(), up to its await: the list is emptied, the probes start
DetectStart ==
    /\ ~detecting
    /\ detecting' = TRUE
    /\ javaVersions' = <<>>
    /\ emitted' = <<>>
    /\ ret' = NoRet
    /\ sent' = NoSignal
    /\ done' = NoReturn
    /\ UNCHANGED <<host, result, now, isRunning, gameProcess, gameOutput, javaCache, currentVersionInfo,
                   calls, procs, log>>

\* detectJavaVersions(), from the settling of its probes: Promise.allSettled
\* waits for every one of them
DetectFinish ==
    /\ detecting
    /\ \A i \in 1..Len(ProbedPaths(host)) : ProbeSettles(javaCache, ProbedPaths(host)[i])
    /\ detecting' = FALSE
    /\ javaVersions' = DetectedVersions(javaCache, host)
    /\ javaCache' = CacheAfterAll(javaCache, ProbedPaths(host))
    /\ emitted' = <<Event("java-versions-detected", 0, 0, "", "", "")>>
    /\ ret' = NoRet
    /\ sent' = NoSignal
    /\ done' = NoReturn
    /\ UNCHANGED <<host, result, now, isRunning, gameProcess, gameOutput, currentVersionInfo,
                   calls, procs, log>>

\* getRecommendedJavaVersion(): Java 8, else Java 11, else the first of the list
getRecommendedJavaVersion(versions) ==
    IF \E i \in 1..Len(versions) : JsStrictEq(versions[i].version, 8)
    THEN versions[CHOOSE i \in 1..Len(versions) :
                    /\ JsStrictEq(versions[i].version, 8)
                    /\ \A j \in 1..(i - 1) : ~JsStrictEq(versions[j].version, 8)]
    ELSE IF \E i \in 1..Len(versions) : JsStrictEq(versions[i].version, 11)
    THEN versions[CHOOSE i \in 1..Len(versions) :
                    /\ JsStrictEq(versions[i].version, 11)
                    /\ \A j \in 1..(i - 1) : ~JsStrictEq(versions[j].version, 11)]
    ELSE IF Len(versions) > 0 THEN versions[1]
    ELSE NullInfo

(***************************************************************************)
(* launchGame                                                              *)
(***************************************************************************)
\* validateJava(javaPath): the javaInfo it returns, or the error it throws
validateJava(versions, cache, javaPath) ==
    IF javaPath = ""
    THEN IF getRecommendedJavaVersion(versions).isValid
         THEN [error |-> "", javaInfo |-> getRecommendedJavaVersion(versions)]
         ELSE [error |-> ErrNoJava, javaInfo |-> NullInfo]
    ELSE IF ~checkJavaVersion(cache, javaPath).isValid
         THEN [error |-> ErrJavaPath, javaInfo |-> NullInfo]
    ELSE IF JsLess(checkJavaVersion(cache, javaPath).version, 8)
         THEN [error |-> ErrJavaOld, javaInfo |-> NullInfo]
    ELSE [error |-> "", javaInfo |-> checkJavaVersion(cache, javaPath)]

\* validateVersion(version): "" or the error it throws
validateVersion(version) ==
    IF version.id \in InstalledVersions THEN "" ELSE ErrNotInstalled

\* validateAccount(account): "" or the error it throws
validateAccount(account) ==
    IF ~account.present \/ account.username = "" THEN ErrAccount
    ELSE IF account.type = "microsoft" /\ account.accessToken = "" THEN ErrToken
    ELSE ""

\* the catch block of launchGame (lines 336-344) for a thrown error: the
\* events it emits and the error the call rejects with; reading
\* account.username of an absent account throws a TypeError instead
CatchEmits(cfg, error) ==
    IF cfg.account.present
    THEN <<Event("game-launch-failed", 0, 0, "", "", error)>>
    ELSE <<>>

CatchError(cfg, error) == IF cfg.account.present THEN error ELSE ErrType

\* what a log entry keeps of an event
Logged(e) == <<e.type, e.proc, e.text>>

\* the first free call slot
FreeSlot(c) == calls[c].pc = "idle" /\ \A d \in 1..(c - 1) : calls[d].pc # "idle"

\* launchGame without the isRunning guard of lines 281-283
LaunchGameNoGuard(c, cfg) ==
    /\ FreeSlot(c)
    /\ calls' = [calls EXCEPT ![c] = [IdleCall EXCEPT !.pc = "validate", !.cfg = cfg]]
    /\ done' = NoReturn
    /\ emitted' = <<>>
    /\ ret' = NoRet
    /\ sent' = NoSignal
    /\ UNCHANGED <<host, result, now, isRunning, gameProcess, gameOutput, javaVersions, javaCache,
                   currentVersionInfo, detecting, procs, log>>

\* launchGame(launchConfig), lines 280-286: the guard, then up to the first await
LaunchGame(c, cfg) ==
    /\ FreeSlot(c)
    /\ IF isRunning
       THEN /\ done' = [Return(c, ErrRunning, FALSE, 0, <<>>) EXCEPT !.cfg = cfg]
            /\ UNCHANGED calls
       ELSE /\ calls' = [calls EXCEPT ![c] = [IdleCall EXCEPT !.pc = "validate", !.cfg = cfg]]
            /\ done' = NoReturn
    /\ emitted' = <<>>
    /\ ret' = NoRet
    /\ sent' = NoSignal
    /\ UNCHANGED <<host, result, now, isRunning, gameProcess, gameOutput, javaVersions, javaCache,
                   currentVersionInfo, detecting, procs, log>>

\* lines 290-293: await this.validateJava(javaPath || config.javaPath), then
\* await this.validateVersion(version); a thrown error goes to the catch block
Validate(c) ==
    /\ calls[c].pc = "validate"
    /\ LET cfg == calls[c].cfg
           javaPath == IF cfg.javaPath # "" THEN cfg.javaPath ELSE config.javaPath
           r == validateJava(javaVersions, javaCache, javaPath)
           error == IF r.error # "" THEN r.error ELSE validateVersion(cfg.version)
       IN  /\ IF javaPath = "" THEN TRUE ELSE ProbeSettles(javaCache, javaPath)
           /\ javaCache' = IF javaPath = "" THEN javaCache ELSE CacheAfter(javaCache, javaPath)
           /\ IF error = ""
              THEN /\ calls' = [calls EXCEPT ![c].pc = "spawn", ![c].javaInfo = r.javaInfo,
                                             ![c].versionInfo = cfg.version.id]
                   /\ emitted' = <<>>
                   /\ done' = NoReturn
              ELSE /\ calls' = [calls EXCEPT ![c] = IdleCall]
                   /\ emitted' = CatchEmits(cfg, error)
                   /\ done' = Return(c, CatchError(cfg, error), FALSE, 0, <<>>)
    /\ ret' = NoRet
    /\ sent' = NoSignal
    /\ UNCHANGED <<host, result, now, isRunning, gameProcess, gameOutput, javaVersions,
                   currentVersionInfo, detecting, procs, log>>

(***************************************************************************)
(* Arguments: an argument is its fixed text f, followed by a number n when *)
(* hasN, followed by the strings of s                                      *)
(***************************************************************************)
Arg(f) == [f |-> f, hasN |-> FALSE, n |-> 0, s |-> <<>>]
ArgN(f, n, tail) == [f |-> f, hasN |-> TRUE, n |-> n, s |-> <<tail>>]
ArgS(s) == [f |-> "", hasN |-> FALSE, n |-> 0, s |-> s]

\* a character of a UUID: the at-th hex digit of the md5 digest of the
\* string `of`, or the dash
HexDigit(of, at) == [of |-> of, at |-> at]
Dash == HexDigit(<<>>, 0)

\* crypto.createHash('md5').update(input).digest('hex'): 32 hex digits that
\* the input determines
Md5Hex(input) == [i \in 1..32 |-> HexDigit(input, i)]

\* hash.replace(/(.{8})(.{4})(.{4})(.{4})(.{12})/, '$1-$2-$3-$4-$5'): the first
\* 32 characters are regrouped, the rest follows; a shorter string is left alone
GroupUUID(hash) ==
    IF Len(hash) < 32 THEN hash
    ELSE SubSeq(hash, 1, 8) \o <<Dash>> \o SubSeq(hash, 9, 12) \o <<Dash>>
         \o SubSeq(hash, 13, 16) \o <<Dash>> \o SubSeq(hash, 17, 20) \o <<Dash>>
         \o SubSeq(hash, 21, 32) \o SubSeq(hash, 33, Len(hash))

\* generateOfflineUUID whose hash also takes in a field of the launcher
generateOfflineUUIDOfLauncher(username) ==
    GroupUUID(Md5Hex(<<"OfflinePlayer:", username, currentVersionInfo>>))

\* generateOfflineUUID(username): the grouped md5 of 'OfflinePlayer:' + username
generateOfflineUUID(username) == GroupUUID(Md5Hex(<<"OfflinePlayer:", username>>))

\* jvmArguments whose test of line 427 is javaInfo.version >= 8
jvmArgumentsFromJava8(memory, javaInfo) ==
    << ArgN("-Xmx", memory, "M"),
       ArgN("-Xms", memory \div 2, "M"),
       Arg("-XX:+UnlockExperimentalVMOptions"),
       Arg("-XX:+UseG1GC"),
       Arg("-XX:G1NewSizePercent=20"),
       Arg("-XX:G1ReservePercent=20"),
       Arg("-XX:MaxGCPauseMillis=50"),
       Arg("-XX:G1HeapRegionSize=32M"),
       ArgS(<<"-Djava.library.path=", "${natives_directory}">>),
       Arg("-Dminecraft.launcher.brand=hcl"),
       Arg("-Dminecraft.launcher.version=1.0.0"),
       Arg("-cp"),
       ArgS(<<"${classpath}">>) >>
    \o (IF JsGeq(javaInfo.version, 8)
        THEN << Arg("--add-opens=java.base/java.util.jar=ALL-UNNAMED"),
                Arg("--add-opens=java.base/java.lang=ALL-UNNAMED"),
                Arg("--add-opens=java.base/java.io=ALL-UNNAMED") >>
        ELSE <<>>)

\* prepareLaunchArguments(account, versionInfo, memory, javaInfo): jvmArguments
jvmArguments(memory, javaInfo) ==
    << ArgN("-Xmx", memory, "M"),
       ArgN("-Xms", memory \div 2, "M"),
       Arg("-XX:+UnlockExperimentalVMOptions"),
       Arg("-XX:+UseG1GC"),
       Arg("-XX:G1NewSizePercent=20"),
       Arg("-XX:G1ReservePercent=20"),
       Arg("-XX:MaxGCPauseMillis=50"),
       Arg("-XX:G1HeapRegionSize=32M"),
       ArgS(<<"-Djava.library.path=", "${natives_directory}">>),
       Arg("-Dminecraft.launcher.brand=hcl"),
       Arg("-Dminecraft.launcher.version=1.0.0"),
       Arg("-cp"),
       ArgS(<<"${classpath}">>) >>
    \o (IF JsGeq(javaInfo.version, 9)
        THEN << Arg("--add-opens=java.base/java.util.jar=ALL-UNNAMED"),
                Arg("--add-opens=java.base/java.lang=ALL-UNNAMED"),
                Arg("--add-opens=java.base/java.io=ALL-UNNAMED") >>
        ELSE <<>>)

gameArguments(account, versionInfo) ==
    << Arg("net.minecraft.client.main.Main"),
       Arg("--username"), ArgS(<<account.username>>),
       Arg("--version"), ArgS(<<versionInfo.id>>),
       Arg("--gameDir"), ArgS(<<config.gameDirectory>>),
       Arg("--assetsDir"), ArgS(<<config.gameDirectory, "/", "assets">>),
       Arg("--assetIndex"), ArgS(<<IF versionInfo.assets # "" THEN versionInfo.assets ELSE "legacy">>),
       Arg("--uuid"), ArgS(IF account.uuid # "" THEN <<account.uuid>>
                           ELSE generateOfflineUUID(account.username)),
       Arg("--accessToken"), ArgS(<<IF account.accessToken # "" THEN account.accessToken ELSE "0">>),
       Arg("--userType"), Arg(IF account.type = "microsoft" THEN "mojang" ELSE "legacy"),
       Arg("--versionType"), Arg("release") >>
    \o (IF account.type = "offline" THEN <<Arg("--demo")>> ELSE <<>>)

\* path.delimiter of the host's platform
Delimiter == IF host.platform = "win32" THEN ";" ELSE ":"

\* generateClasspath(versionInfo): the library paths, each followed by
\* path.delimiter
RECURSIVE LibraryPaths(_)
LibraryPaths(libraries) ==
    IF libraries = <<>> THEN <<>>
    ELSE (IF Head(libraries) # ""
          THEN <<config.gameDirectory, "/libraries/", Head(libraries), Delimiter>>
          ELSE <<>>) \o LibraryPaths(Tail(libraries))

generateClasspath(versionInfo) ==
    LibraryPaths(versionInfo.libraries)
        \o <<config.gameDirectory, "/versions/", versionInfo.id, "/", versionInfo.id, ".jar">>

\* generateNativesPath(versionInfo)
generateNativesPath(versionInfo) ==
    <<config.gameDirectory, "/versions/", versionInfo.id, "/natives">>

\* arg.replace of the two placeholders (lines 510-513)
RECURSIVE ReplacePlaceholders(_, _)
ReplacePlaceholders(s, versionInfo) ==
    IF s = <<>> THEN <<>>
    ELSE (IF Head(s) = "${natives_directory}" THEN generateNativesPath(versionInfo)
          ELSE IF Head(s) = "${classpath}" THEN generateClasspath(versionInfo)
          ELSE <<Head(s)>>) \o ReplacePlaceholders(Tail(s), versionInfo)

\* spawnGameProcess, lines 510-515: the arguments handed to spawn, with the
\* placeholders resolved against this.currentVersionInfo
AllArgs(jvmArgs, gameArgs, current) ==
    [i \in 1..Len(jvmArgs) |->
        [jvmArgs[i] EXCEPT !.s = ReplacePlaceholders(jvmArgs[i].s, Manifest(current))]]
    \o gameArgs

\* what child_process.spawn does: the child runs ("alive"), the OS cannot
\* create the process and the child will emit 'error' ("spawnerr"), or spawn
\* itself throws ("throw")
SpawnOutcomes == {"alive", "spawnerr", "throw"}

\* the error that ends a call at lines 296-315 before a child exists, "" if none
SpawnError(cfg, current, outcome) ==
    IF validateAccount(cfg.account) # "" THEN validateAccount(cfg.account)
    ELSE IF current = Null THEN ErrType  \* generateNativesPath(undefined) throws
    ELSE IF outcome = "throw" THEN ErrSpawn
    ELSE ""

\* the first child process object of the model not yet used
NewProc == CHOOSE q \in Procs : procs[q] = "unused" /\ \A r \in 1..(q - 1) : procs[r] # "unused"

\* lines 296-335: validateAccount, prepareLaunchArguments, spawnGameProcess,
\* the session fields, setupProcessListeners and the 'game-launched' event
LaunchSpawn(c) ==
    /\ calls[c].pc = "spawn"
    /\ \E outcome \in SpawnOutcomes :
        LET cfg == calls[c].cfg
            memory == IF cfg.memory # 0 THEN cfg.memory ELSE config.memory
            jvm == jvmArguments(memory, calls[c].javaInfo)
            game == gameArguments(cfg.account, Manifest(calls[c].versionInfo))
            error == SpawnError(cfg, currentVersionInfo, outcome)
        IN  IF error # ""
            THEN /\ outcome = "throw"
                 /\ emitted' = CatchEmits(cfg, error)
                 /\ done' = Return(c, CatchError(cfg, error), validateAccount(cfg.account) = "",
                                   0, <<>>)
                 /\ UNCHANGED <<isRunning, gameProcess, gameOutput, procs, log>>
            ELSE /\ \E p \in Procs : procs[p] = "unused"
                 /\ LET launched == Event("game-launched", NewProc,
                                          IF outcome = "alive" THEN NewProc ELSE 0, "", "", "")
                    IN  /\ procs' = [procs EXCEPT ![NewProc] = outcome]
                        /\ gameProcess' = NewProc
                        /\ isRunning' = TRUE
                        /\ gameOutput' = <<>>
                        /\ emitted' = <<launched>>
                        /\ log' = log \cup {Logged(launched)}
                        /\ done' = Return(c, "", TRUE, NewProc,
                                          AllArgs(jvm, game, currentVersionInfo))
    /\ calls' = [calls EXCEPT ![c] = IdleCall]
    /\ ret' = NoRet
    /\ sent' = NoSignal
    /\ UNCHANGED <<host, result, now, javaVersions, javaCache, currentVersionInfo, detecting>>

\* the host program assigns launcher.currentVersionInfo
SetCurrentVersionInfo(v) ==
    /\ currentVersionInfo # v
    /\ currentVersionInfo' = v
    /\ emitted' = <<>>
    /\ ret' = NoRet
    /\ sent' = NoSignal
    /\ done' = NoReturn
    /\ UNCHANGED <<host, result, now, isRunning, gameProcess, gameOutput, javaVersions, javaCache,
                   detecting, calls, procs, log>>

(***************************************************************************)
(* The listeners of setupProcessListeners; each runs when child p emits    *)
(* the event, whatever this.gameProcess is by then                         *)
(***************************************************************************)
\* an output text is the set of error signatures it contains
Outputs == { {}, {"java.lang.OutOfMemoryError"} }

\* output texts that match several rules, one rule, or none
OutputTexts ==
    { {},
      {"java.lang.OutOfMemoryError"},
      {"java.lang.OutOfMemoryError", "Could not find or load main class"},
      {"Could not find or load main class", "Authentication failed"},
      {"Authentication failed", "Failed to download", "Invalid access token"},
      {"Failed to download", "Invalid access token"},
      {"Invalid access token"} }

\* errorPatterns without the out-of-memory rule
errorPatternsNoMemory ==
    << [pattern |-> "Could not find or load main class", message |-> "game files corrupted"],
       [pattern |-> "Authentication failed", message |-> "authentication failed"],
       [pattern |-> "Failed to download", message |-> "download failed"],
       [pattern |-> "Invalid access token", message |-> "access token invalid"] >>

\* errorPatterns, in order
errorPatterns ==
    << [pattern |-> "java.lang.OutOfMemoryError", message |-> "out of memory"],
       [pattern |-> "Could not find or load main class", message |-> "game files corrupted"],
       [pattern |-> "Authentication failed", message |-> "authentication failed"],
       [pattern |-> "Failed to download", message |-> "download failed"],
       [pattern |-> "Invalid access token", message |-> "access token invalid"] >>

\* checkForErrors without the break of line 589: one event per matching rule
checkForErrorsNoBreak(output, p) ==
    LET hits == SelectSeq(errorPatterns, LAMBDA r : r.pattern \in output)
    IN  [i \in 1..Len(hits) |->
            [Event("game-error-detected", p, 0, "", "", hits[i].message) EXCEPT !.data = output]]

\* checkForErrors(output): the events it emits, for the listener of child p
checkForErrors(output, p) ==
    IF \E i \in 1..Len(errorPatterns) : errorPatterns[i].pattern \in output
    THEN LET i == CHOOSE k \in 1..Len(errorPatterns) :
                    /\ errorPatterns[k].pattern \in output
                    /\ \A j \in 1..(k - 1) : errorPatterns[j].pattern \notin output
         IN  <<[Event("game-error-detected", p, 0, "", "", errorPatterns[i].message)
                    EXCEPT !.data = output]>>
    ELSE <<>>

\* a record that loses its text when a rule matches it
OutputRecordDropsMatched(type, data) ==
    [type |-> type,
     data |-> IF \E i \in 1..Len(errorPatterns) : errorPatterns[i].pattern \in data
              THEN {} ELSE data,
     timestamp |-> now]

\* the record of lines 543 and 549
OutputRecord(type, data) == [type |-> type, data |-> data, timestamp |-> now]

\* a 'data' listener that puts the record at the head of the buffer
StdoutDataPrepends(p, data) ==
    /\ procs[p] = "alive"
    /\ Len(gameOutput) < MaxOutput
    /\ gameOutput' = <<OutputRecord("stdout", data)>> \o gameOutput
    /\ emitted' = <<[Event("game-output", p, 0, "", "stdout", "") EXCEPT !.data = data]>>
    /\ ret' = NoRet
    /\ sent' = NoSignal
    /\ done' = NoReturn
    /\ UNCHANGED <<host, result, now, isRunning, gameProcess, javaVersions, javaCache,
                   currentVersionInfo, detecting, calls, procs, log>>

\* the 'data' listener of child p's stdout
StdoutData(p, data) ==
    /\ procs[p] = "alive"
    /\ Len(gameOutput) < MaxOutput
    /\ gameOutput' = Append(gameOutput, OutputRecord("stdout", data))
    /\ emitted' = <<[Event("game-output", p, 0, "", "stdout", "") EXCEPT !.data = data]>>
    /\ ret' = NoRet
    /\ sent' = NoSignal
    /\ done' = NoReturn
    /\ UNCHANGED <<host, result, now, isRunning, gameProcess, javaVersions, javaCache, currentVersionInfo,
                   detecting, calls, procs, log>>

\* the 'data' listener of child p's stderr
StderrData(p, data) ==
    /\ procs[p] = "alive"
    /\ Len(gameOutput) < MaxOutput
    /\ gameOutput' = Append(gameOutput, OutputRecord("stderr", data))
    /\ emitted' = <<[Event("game-output", p, 0, "", "stderr", "") EXCEPT !.data = data]>>
                       \o checkForErrors(data, p)
    /\ log' = log \cup {Logged(checkForErrors(data, p)[i]) : i \in 1..Len(checkForErrors(data, p))}
    /\ ret' = NoRet
    /\ sent' = NoSignal
    /\ done' = NoReturn
    /\ UNCHANGED <<host, result, now, isRunning, gameProcess, javaVersions, javaCache, currentVersionInfo,
                   detecting, calls, procs>>

\* the exit codes 'close' may carry: 0 or 1 of a process that ran, null
\* ("null") when a signal ended it (this launcher's or anyone's), the
\* negative errno of a failed spawn
CloseCodes(p) ==
    IF procs[p] = "errored" THEN {"-2"} ELSE {"0", "1", "null"}

\* the 'close' listener of child p
Close(p, code) ==
    /\ procs[p] \in {"alive", "errored"}
    /\ code \in CloseCodes(p)
    /\ procs' = [procs EXCEPT ![p] = "closed"]
    /\ isRunning' = FALSE
    /\ LET exit == Event("game-exit", p, 0, code, IF code = "0" THEN "normal" ELSE "error", "")
       IN  /\ emitted' = <<exit>>
           /\ log' = log \cup {Logged(exit)}
    /\ gameProcess' = 0
    /\ ret' = NoRet
    /\ sent' = NoSignal
    /\ done' = NoReturn
    /\ UNCHANGED <<host, result, now, gameOutput, javaVersions, javaCache, currentVersionInfo,
                   detecting, calls>>

\* the 'error' listener of child p
Error(p) ==
    /\ procs[p] = "spawnerr"
    /\ procs' = [procs EXCEPT ![p] = "errored"]
    /\ isRunning' = FALSE
    /\ LET failed == Event("game-error", p, 0, "", "", "spawn error")
       IN  /\ emitted' = <<failed>>
           /\ log' = log \cup {Logged(failed)}
    /\ gameProcess' = 0
    /\ ret' = NoRet
    /\ sent' = NoSignal
    /\ done' = NoReturn
    /\ UNCHANGED <<host, result, now, gameOutput, javaVersions, javaCache, currentVersionInfo,
                   detecting, calls>>

(***************************************************************************)
(* stopGame, forceKillGame, clearGameOutput                                *)
(***************************************************************************)
\* the guard of stopGame without its isRunning test
StopRejectedNoRunningTest ==
    \/ gameProcess = 0
    \/ host.platform = "win32" /\ Pid(gameProcess) = 0

\* stopGame() returns false: no session, or (win32) pid.toString() of the
\* undefined pid of a child that was never created throws into the catch
StopRejected ==
    \/ gameProcess = 0
    \/ ~isRunning
    \/ host.platform = "win32" /\ Pid(gameProcess) = 0

\* stopGame()
StopGame ==
    /\ IF StopRejected
       THEN /\ ret' = Ret("stopGame", FALSE)
            /\ emitted' = <<>>
            /\ sent' = NoSignal
            /\ UNCHANGED <<isRunning, log>>
       ELSE /\ sent' = [proc |-> gameProcess,
                        signal |-> IF host.platform = "win32" THEN "taskkill" ELSE "SIGTERM"]
            /\ isRunning' = FALSE
            /\ LET stopped == Event("game-stopped", gameProcess, Pid(gameProcess), "", "", "")
               IN  /\ emitted' = <<stopped>>
                   /\ log' = log \cup {Logged(stopped)}
            /\ ret' = Ret("stopGame", TRUE)
    /\ done' = NoReturn
    /\ UNCHANGED <<host, result, now, gameProcess, gameOutput, javaVersions, javaCache,
                   currentVersionInfo, detecting, calls, procs>>

\* the guard of forceKillGame written like stopGame's
KillRejectedLikeStop == gameProcess = 0 \/ ~isRunning

\* forceKillGame() returns false: there is no process handle
KillRejected == gameProcess = 0

\* forceKillGame()
ForceKillGame ==
    /\ IF KillRejected
       THEN /\ ret' = Ret("forceKillGame", FALSE)
            /\ emitted' = <<>>
            /\ sent' = NoSignal
            /\ UNCHANGED <<isRunning, log>>
       ELSE /\ sent' = [proc |-> gameProcess, signal |-> "SIGKILL"]
            /\ isRunning' = FALSE
            /\ LET killed == Event("game-killed", gameProcess, Pid(gameProcess), "", "", "")
               IN  /\ emitted' = <<killed>>
                   /\ log' = log \cup {Logged(killed)}
            /\ ret' = Ret("forceKillGame", TRUE)
    /\ done' = NoReturn
    /\ UNCHANGED <<host, result, now, gameProcess, gameOutput, javaVersions, javaCache,
                   currentVersionInfo, detecting, calls, procs>>

\* clearGameOutput()
ClearGameOutput ==
    /\ gameOutput # <<>>
    /\ gameOutput' = <<>>
    /\ emitted' = <<>>
    /\ ret' = NoRet
    /\ sent' = NoSignal
    /\ done' = NoReturn
    /\ UNCHANGED <<host, result, now, isRunning, gameProcess, javaVersions, javaCache, currentVersionInfo,
                   detecting, calls, procs, log>>

(***************************************************************************)
(* Specification                                                           *)
(***************************************************************************)
Next ==
    \/ DetectStart
    \/ DetectFinish
    \/ \E c \in Slots, cfg \in LaunchConfigs : LaunchGame(c, cfg)
    \/ \E c \in Slots : Validate(c)
    \/ \E c \in Slots : LaunchSpawn(c)
    \/ \E v \in VersionInfos : SetCurrentVersionInfo(v)
    \/ \E p \in Procs, data \in Outputs : StdoutData(p, data)
    \/ \E p \in Procs, data \in Outputs : StderrData(p, data)
    \/ \E p \in Procs, code \in {"0", "1", "null", "-2"} : Close(p, code)
    \/ \E p \in Procs : Error(p)
    \/ StopGame
    \/ ForceKillGame
    \/ ClearGameOutput

Spec == Init /\ [][Next]_vars

(***************************************************************************)
(* Two launchGame calls in flight: the launch steps alone, with two call   *)
(* slots and two child processes                                           *)
(***************************************************************************)
RaceCalls == 2
RaceProcs == 2

\* requests whose preconditions hold
RaceConfigs == { Req(Steve, "1.20", "", 2048), Req(Steve, "1.20", "/j17", 0) }

RaceInit ==
    /\ host \in Hosts
    /\ isRunning = FALSE
    /\ gameProcess = 0
    /\ gameOutput = <<>>
    /\ javaVersions = <<>>
    /\ javaCache = [p \in JavaPaths |-> NullInfo]
    /\ currentVersionInfo = Null
    /\ detecting = TRUE
    /\ calls = [c \in 1..RaceCalls |-> IdleCall]
    /\ procs = [p \in 1..RaceProcs |-> "unused"]
    /\ emitted = <<>>
    /\ log = {}
    /\ ret = NoRet
    /\ sent = NoSignal
    /\ done = NoReturn
    /\ result = NoResult
    /\ now = 0

RaceNext ==
    \/ DetectFinish
    \/ \E c \in Slots, cfg \in RaceConfigs : LaunchGame(c, cfg)
    \/ \E c \in Slots : Validate(c)
    \/ \E c \in Slots : LaunchSpawn(c)
    \/ \E v \in VersionInfos : SetCurrentVersionInfo(v)
    \/ \E p \in Procs, code \in {"0", "1", "null", "-2"} : Close(p, code)
    \/ \E p \in Procs : Error(p)

SpecRace == RaceInit /\ [][RaceNext]_vars

(***************************************************************************)
(* One session after another: one launchGame call at a time, two child     *)
(* processes, stopGame and forceKillGame between the launches              *)
(***************************************************************************)
RelaunchConfigs == { Req(Steve, "1.20", "/j17", 0) }

RelaunchInit ==
    /\ host \in Hosts
    /\ isRunning = FALSE
    /\ gameProcess = 0
    /\ gameOutput = <<>>
    /\ javaVersions = <<>>
    /\ javaCache = [p \in JavaPaths |-> NullInfo]
    /\ currentVersionInfo = Null
    /\ detecting = TRUE
    /\ calls = [c \in 1..MaxCalls |-> IdleCall]
    /\ procs = [p \in 1..RaceProcs |-> "unused"]
    /\ emitted = <<>>
    /\ log = {}
    /\ ret = NoRet
    /\ sent = NoSignal
    /\ done = NoReturn
    /\ result = NoResult
    /\ now = 0

RelaunchNext ==
    \/ DetectFinish
    \/ \E c \in Slots, cfg \in RelaunchConfigs : LaunchGame(c, cfg)
    \/ \E c \in Slots : Validate(c)
    \/ \E c \in Slots : LaunchSpawn(c)
    \/ \E v \in VersionInfos : SetCurrentVersionInfo(v)
    \/ \E p \in Procs, data \in Outputs : StdoutData(p, data)
    \/ \E p \in Procs, code \in {"0", "1", "null", "-2"} : Close(p, code)
    \/ \E p \in Procs : Error(p)
    \/ StopGame
    \/ ForceKillGame

SpecRelaunch == RelaunchInit /\ [][RelaunchNext]_vars

(***************************************************************************)
(* One session and its output: a single request, every kind of output text *)
(***************************************************************************)
OutputConfigs == { Req(Steve, "1.20", "/j17", 0) }

OutputNext ==
    \/ DetectFinish
    \/ \E c \in Slots, cfg \in OutputConfigs : LaunchGame(c, cfg)
    \/ \E c \in Slots : Validate(c)
    \/ \E c \in Slots : LaunchSpawn(c)
    \/ \E v \in VersionInfos : SetCurrentVersionInfo(v)
    \/ \E p \in Procs, data \in OutputTexts : StdoutData(p, data)
    \/ \E p \in Procs, data \in OutputTexts : StderrData(p, data)
    \/ \E p \in Procs, code \in {"0", "1", "null", "-2"} : Close(p, code)
    \/ \E p \in Procs : Error(p)
    \/ ClearGameOutput

SpecOutput == Init /\ [][OutputNext]_vars

(***************************************************************************)
(* One session, its output and the clock that stamps the records           *)
(***************************************************************************)
\* the clock readings of the model are 0..MaxClock
MaxClock == 2

\* time passes on the host; the clock is assumed not to be set back
Tick ==
    /\ now < MaxClock
    /\ now' = now + 1
    /\ emitted' = <<>>
    /\ ret' = NoRet
    /\ sent' = NoSignal
    /\ done' = NoReturn
    /\ UNCHANGED <<host, result, isRunning, gameProcess, gameOutput, javaVersions, javaCache,
                   currentVersionInfo, detecting, calls, procs, log>>

OrderNext ==
    \/ DetectFinish
    \/ \E c \in Slots, cfg \in OutputConfigs : LaunchGame(c, cfg)
    \/ \E c \in Slots : Validate(c)
    \/ \E c \in Slots : LaunchSpawn(c)
    \/ \E v \in VersionInfos : SetCurrentVersionInfo(v)
    \/ \E p \in Procs, data \in Outputs : StdoutData(p, data)
    \/ \E p \in Procs, data \in Outputs : StderrData(p, data)
    \/ \E p \in Procs, code \in {"0", "1", "null", "-2"} : Close(p, code)
    \/ \E p \in Procs : Error(p)
    \/ ClearGameOutput
    \/ Tick

SpecOrder == Init /\ [][OrderNext]_vars

(***************************************************************************)
(* Runtime discovery alone, on every host with up to two common paths      *)
(***************************************************************************)
\* number of paths getCommonJavaPaths returns
MaxCommonPaths == 2

DiscoverPaths == {"/j5", "/j8", "/j17", "/jzulu", "/jbeta", "/notjava", "/missing", "/hung"}

DiscoverHosts ==
    { [common |-> c, which |-> w, platform |-> "linux"] :
        c \in { q \in UNION { [1..n -> DiscoverPaths] : n \in 0..MaxCommonPaths } :
                    \A i, j \in 1..Len(q) : i # j => q[i] # q[j] },
        w \in DiscoverPaths \cup {Null} }

DiscoverInit ==
    /\ host \in DiscoverHosts
    /\ isRunning = FALSE
    /\ gameProcess = 0
    /\ gameOutput = <<>>
    /\ javaVersions = <<>>
    /\ javaCache = [p \in JavaPaths |-> NullInfo]
    /\ currentVersionInfo = Null
    /\ detecting = TRUE
    /\ calls = [c \in 1..MaxCalls |-> IdleCall]
    /\ procs = [p \in 1..MaxProcs |-> "unused"]
    /\ emitted = <<>>
    /\ log = {}
    /\ ret = NoRet
    /\ sent = NoSignal
    /\ done = NoReturn
    /\ result = NoResult
    /\ now = 0

DiscoverNext ==
    \/ DetectStart
    \/ DetectFinish

SpecDiscover == DiscoverInit /\ [][DiscoverNext]_vars

\* the step of DetectFinish as far as detecting goes: every probe has settled
\* and the call goes on from its await
DetectSettled ==
    /\ detecting
    /\ \A i \in 1..Len(ProbedPaths(host)) : ProbeSettles(javaCache, ProbedPaths(host)[i])
    /\ detecting' = FALSE

\* the event loop runs the continuation of a call whose promises have settled
FairDiscover == SpecDiscover /\ WF_detecting(DetectSettled)

(***************************************************************************)
(* HCLGameManager, the launcher the main process uses: its JVM arguments   *)
(***************************************************************************)
\* HCLGameManager.generateJVMArgs(memory, gameDir, account); launchGame hands
\* it launchConfig.memory as it is, undefined (0) when the request has none
generateJVMArgs(memory, account) ==
    << IF memory # 0 THEN ArgN("-Xmx", memory, "M") ELSE ArgS(<<"-Xmx", "undefined", "M">>),
       IF memory # 0 THEN ArgN("-Xms", memory \div 4, "M") ELSE ArgS(<<"-Xms", "NaN", "M">>),
       ArgS(<<"-Djava.library.path=", "${natives_directory}">>),
       Arg("-Dminecraft.launcher.brand=hcl"),
       Arg("-Dminecraft.launcher.version=1.0.0"),
       Arg("-cp"),
       ArgS(<<"${classpath}">>) >>
    \o (IF account.type # "offline"
        THEN << Arg("-Dminecraft.api.auth.host=https://authserver.mojang.com"),
                Arg("-Dminecraft.api.account.host=https://api.mojang.com"),
                Arg("-Dminecraft.api.session.host=https://sessionserver.mojang.com") >>
        ELSE <<>>)

\* HCLGameManager.generateGameArgs(version, account); version is the
\* launchConfig's version object
generateGameArgs(version, account) ==
    << Arg("net.minecraft.client.main.Main"),
       Arg("--username"), ArgS(<<account.username>>),
       Arg("--version"), ArgS(<<version.id>>),
       Arg("--gameDir"), ArgS(<<config.gameDirectory>>),
       Arg("--assetsDir"), ArgS(<<config.gameDirectory, "/", "assets">>),
       Arg("--assetIndex"), ArgS(<<IF version.assets # "" THEN version.assets ELSE "undefined">>),
       Arg("--uuid"), ArgS(<<IF account.uuid # "" THEN account.uuid ELSE "offline-uuid">>),
       Arg("--accessToken"), ArgS(<<IF account.accessToken # "" THEN account.accessToken ELSE "0">>),
       Arg("--userType"), Arg("mojang"),
       Arg("--versionType"), Arg("release") >>
    \o (IF account.type = "offline" THEN <<Arg("--demo")>> ELSE <<>>)

(***************************************************************************)
(* Direct calls of the methods that compute a value, on a launcher whose   *)
(* fields change in between                                                *)
(***************************************************************************)
Usernames == {"Steve", "Alex", ""}

Alex == [present |-> TRUE, username |-> "Alex", type |-> "microsoft", accessToken |-> "t-alex", uuid |-> "u-alex"]

ArgAccounts == {Steve, Alex}

\* the heap sizes of a request: none, or a number of megabytes
Memories == {0, 2048, 4097}

\* the runtimes a launch may have validated
ArgRuntimes == { parseJavaVersion(Banner8Short, "/j8s"), parseJavaVersion(Banner17, "/j17") }

\* a step that is a direct call leaves the launcher alone
CallFrame ==
    /\ emitted' = <<>>
    /\ ret' = NoRet
    /\ sent' = NoSignal
    /\ done' = NoReturn
    /\ UNCHANGED <<host, now, isRunning, gameProcess, gameOutput, javaVersions,
                   currentVersionInfo, detecting, calls, procs, log>>

\* generateOfflineUUID(username)
CallGenerateOfflineUUID(username) ==
    /\ result' = Result("generateOfflineUUID", username, generateOfflineUUID(username), "")
    /\ UNCHANGED javaCache
    /\ CallFrame

\* the arguments of a launch as launchGame builds them: prepareLaunchArguments
\* with memory || config.memory (lines 299-304), then the substitution of
\* spawnGameProcess (lines 510-515), which throws while currentVersionInfo
\* is undefined
CallPrepareLaunchArguments(account, versionId, memory, javaInfo) ==
    /\ LET input == [account |-> account, version |-> versionId, memory |-> memory,
                     javaInfo |-> javaInfo]
           jvm == jvmArguments(IF memory # 0 THEN memory ELSE config.memory, javaInfo)
           game == gameArguments(account, Manifest(versionId))
       IN  result' = IF currentVersionInfo = Null
                     THEN Result("prepareLaunchArguments", input, <<>>, ErrType)
                     ELSE Result("prepareLaunchArguments", input,
                                 AllArgs(jvm, game, currentVersionInfo), "")
    /\ UNCHANGED javaCache
    /\ CallFrame

\* HCLGameManager.launchGame, line 25: generateJVMArgs(memory, gameDir, account)
CallGenerateJVMArgs(account, memory) ==
    /\ result' = Result("generateJVMArgs",
                        [account |-> account, version |-> "", memory |-> memory,
                         javaInfo |-> NullInfo],
                        generateJVMArgs(memory, account), "")
    /\ UNCHANGED javaCache
    /\ CallFrame

\* HCLGameManager.launchGame, line 26: generateGameArgs(version, account)
CallGenerateGameArgs(account, versionId) ==
    /\ result' = Result("generateGameArgs",
                        [account |-> account, version |-> versionId, memory |-> 0,
                         javaInfo |-> NullInfo],
                        generateGameArgs(Manifest(versionId), account), "")
    /\ UNCHANGED javaCache
    /\ CallFrame

\* validateJava(javaPath) for a path
CallValidateJava(javaPath) ==
    /\ ProbeSettles(javaCache, javaPath)
    /\ LET r == validateJava(javaVersions, javaCache, javaPath)
       IN  result' = Result("validateJava", javaPath, r.javaInfo, r.error)
    /\ javaCache' = CacheAfter(javaCache, javaPath)
    /\ CallFrame

CallNext ==
    \/ DetectFinish
    \/ \E v \in VersionInfos : SetCurrentVersionInfo(v)
    \/ \E username \in Usernames : CallGenerateOfflineUUID(username)
    \/ \E account \in ArgAccounts, versionId \in InstalledVersions, memory \in Memories,
          javaInfo \in ArgRuntimes :
            CallPrepareLaunchArguments(account, versionId, memory, javaInfo)
    \/ \E account \in ArgAccounts, memory \in Memories : CallGenerateJVMArgs(account, memory)
    \/ \E account \in ArgAccounts, versionId \in InstalledVersions :
            CallGenerateGameArgs(account, versionId)
    \/ \E javaPath \in {"/j5", "/j17", "/missing"} : CallValidateJava(javaPath)

SpecCalls == Init /\ [][CallNext]_vars

(***************************************************************************)
(* Properties                                                              *)
(***************************************************************************)
HasEvent(events, type) == \E i \in 1..Len(events) : events[i].type = type

\* the fields of the session
session == <<isRunning, gameProcess, gameOutput>>

\* the launcher's fields and the child processes
launcher == <<isRunning, gameProcess, gameOutput, javaVersions, javaCache,
              currentVersionInfo, calls, procs, log>>

\* C1: while a session is Running, no launchGame call gets past the guard: the
\* call is rejected with the 'already running' error in the same step,
\* spawns nothing, emits nothing and leaves isRunning, the process handle
\* and the output buffer as they were.
C1_RunningRejectsLaunch ==
    [][isRunning =>
        /\ \A c \in Slots : calls[c].pc = "idle" => calls'[c].pc = "idle"
        /\ done'.error = ErrRunning =>
              /\ done'.proc = 0 /\ ~done'.spawned
              /\ emitted' = <<>>
              /\ UNCHANGED <<session, procs, calls>>]_vars

\* a launchGame call was rejected while a child process was running
C1_Witness ==
    /\ done.error = ErrRunning
    /\ isRunning
    /\ gameProcess # 0 /\ procs[gameProcess] = "alive"

\* C2: two launchGame calls never are past the guard at the same time (the
\* second fails with 'already running'), and at most one child process
\* exists at a time.
C2_ConcurrentLaunchSpawnsOnce ==
    /\ Cardinality({c \in Slots : calls[c].pc # "idle"}) <= 1
    /\ Cardinality({p \in Procs : procs[p] \in {"alive", "spawnerr"}}) <= 1

\* the preconditions of the launch that ended in r hold: the runtime it
\* validated has a version >= 8, the version is installed, the account is
\* complete
PreconditionsHold(r) ==
    /\ r.javaInfo.isValid
    /\ r.javaInfo.version.k = "num" /\ r.javaInfo.version.n >= 8
    /\ r.cfg.version.id \in InstalledVersions
    /\ r.cfg.account.present /\ r.cfg.account.username # ""
    /\ r.cfg.account.type = "microsoft" => r.cfg.account.accessToken # ""

\* C3: a launchGame call made with no session Running and whose preconditions
\* hold (and that the OS lets spawn) returns success: it has spawned one
\* child, the session is Running on it, and exactly the 'game-launched'
\* event with the child's pid was emitted.
C3_LaunchSpawnsProcess ==
    (done.slot # 0 /\ done.error \notin {ErrRunning, ErrSpawn} /\ PreconditionsHold(done)) =>
        /\ done.error = ""
        /\ done.proc # 0 /\ procs[done.proc] \in {"alive", "spawnerr"}
        /\ isRunning /\ gameProcess = done.proc
        /\ emitted = <<Event("game-launched", done.proc, Pid(done.proc), "", "", "")>>

\* C4: a launchGame call one of whose preconditions fails ends with an error,
\* and the step that ends it spawns no child, emits no 'game-launched' and
\* leaves isRunning, the process handle and the output buffer unchanged.
C4_PreconditionFailureSpawnsNothing ==
    [][(done'.slot # 0 /\ done'.error # ErrRunning /\ ~PreconditionsHold(done')) =>
          /\ done'.error # ""
          /\ done'.proc = 0
          /\ ~HasEvent(emitted', "game-launched")
          /\ UNCHANGED <<session, procs>>]_vars

\* C5: every launchGame call that reaches spawnGameProcess does so with a
\* runtime whose version is an integer >= 8.
C5_SpawnUsesJava8 ==
    done.spawned => (done.javaInfo.version.k = "num" /\ done.javaInfo.version.n >= 8)

\* C6: stopGame called with no process handle or with isRunning false returns
\* false, emits no event, sends no signal and changes nothing.
C6_StopWithoutSessionIsNoOp ==
    [][(ret'.op = "stopGame" /\ (gameProcess = 0 \/ ~isRunning)) =>
          /\ ret'.value = FALSE
          /\ emitted' = <<>>
          /\ sent' = NoSignal
          /\ UNCHANGED launcher]_vars

\* a second stopGame after a first one, on a child that still runs, returned false
C6_Witness ==
    /\ ret = Ret("stopGame", FALSE)
    /\ gameProcess # 0 /\ procs[gameProcess] = "alive"
    /\ <<"game-stopped", gameProcess, "">> \in log

\* C7: the 'game-stopped' event of a child has been emitted, and isRunning
\* set to false by stopGame, only once the child's 'close' confirmed its exit.
C7_StoppedOnlyAfterExit ==
    \A p \in Procs : <<"game-stopped", p, "">> \in log => procs[p] = "closed"

\* C8: forceKillGame without a process handle returns false, emits nothing and
\* changes nothing; with a process handle, whatever isRunning is, it sends
\* SIGKILL to the child, sets isRunning to false, emits exactly 'game-killed'
\* with the child's pid, and returns true.
C8_ForceKillNeedsOnlyHandle ==
    [][ret'.op = "forceKillGame" =>
          IF gameProcess = 0
          THEN /\ ret'.value = FALSE
               /\ emitted' = <<>>
               /\ sent' = NoSignal
               /\ UNCHANGED launcher
          ELSE /\ ret'.value = TRUE
               /\ sent' = [proc |-> gameProcess, signal |-> "SIGKILL"]
               /\ ~isRunning'
               /\ emitted' = <<Event("game-killed", gameProcess, Pid(gameProcess), "", "", "")>>]_vars

\* forceKillGame was accepted after stopGame, before the child exited
C8_Witness ==
    /\ ret = Ret("forceKillGame", TRUE)
    /\ sent.signal = "SIGKILL" /\ procs[sent.proc] = "alive"
    /\ <<"game-stopped", sent.proc, "">> \in log

\* forceKillGame was rejected for want of a process handle
C8_WitnessRejected == ret = Ret("forceKillGame", FALSE) /\ gameProcess = 0

\* C9: a child whose spawn failed is reported by 'game-error' alone: no
\* 'game-launched' and no 'game-exit' of that child is ever emitted; a child
\* that ran and exited is reported by 'game-exit', never by 'game-error'.
C9_SpawnErrorOnlyFailed ==
    \A p \in Procs :
        <<"game-error", p, "spawn error">> \in log =>
            /\ <<"game-launched", p, "">> \notin log
            /\ <<"game-exit", p, "">> \notin log

\* the buffer holds a stderr record with the out-of-memory signature
HasMemoryRecord(output) ==
    \E i \in 1..Len(output) :
        output[i].type = "stderr" /\ "java.lang.OutOfMemoryError" \in output[i].data

\* C10: when the 'close' of a child carries exit code 1, isRunning becomes
\* false and the 'game-exit' event carries code 1 and type 'error'; if the
\* buffer holds a stderr record with the out-of-memory signature, the
\* out-of-memory diagnostic was emitted before this step.
C10_MemoryDiagnosticBeforeExit ==
    [][(HasEvent(emitted', "game-exit") /\ emitted'[1].code = "1") =>
          /\ ~isRunning' /\ gameProcess' = 0
          /\ emitted' = <<Event("game-exit", emitted'[1].proc, 0, "1", "error", "")>>
          /\ HasMemoryRecord(gameOutput) =>
                \E p \in Procs : <<"game-error-detected", p, "out of memory">> \in log]_vars

\* a child exited with code 1 after an out-of-memory record on stderr
C10_Witness ==
    /\ HasEvent(emitted, "game-exit") /\ emitted[1].code = "1"
    /\ HasMemoryRecord(gameOutput)
    /\ ~isRunning

\* the messages of the diagnostics a step emitted, in order
DiagnosticMessages(events) ==
    LET ds == SelectSeq(events, LAMBDA e : e.type = "game-error-detected")
    IN  [i \in 1..Len(ds) |-> ds[i].text]

\* the rule order the classifier has to respect
FirstRuleMessage(data) ==
    IF "java.lang.OutOfMemoryError" \in data THEN <<"out of memory">>
    ELSE IF "Could not find or load main class" \in data THEN <<"game files corrupted">>
    ELSE IF "Authentication failed" \in data THEN <<"authentication failed">>
    ELSE IF "Failed to download" \in data THEN <<"download failed">>
    ELSE IF "Invalid access token" \in data THEN <<"access token invalid">>
    ELSE <<>>

\* C11: a stderr record yields at most one diagnostic, the one of the first
\* rule that matches in the order out-of-memory, missing main class,
\* authentication failure, download failure, invalid access token; a stdout
\* record yields none
C11_OneDiagnosticByPriority ==
    [][HasEvent(emitted', "game-output") =>
        /\ emitted'[1].type = "game-output"
        /\ Len(emitted') <= 2
        /\ \A i \in 2..Len(emitted') : emitted'[i].type = "game-error-detected"
        /\ DiagnosticMessages(emitted') =
               IF emitted'[1].kind = "stderr" THEN FirstRuleMessage(emitted'[1].data) ELSE <<>>]_vars

\* a stderr record that matches two rules was classified
C11_Witness ==
    /\ Len(emitted) = 2
    /\ emitted[1].type = "game-output" /\ emitted[1].kind = "stderr"
    /\ {"java.lang.OutOfMemoryError", "Could not find or load main class"} \subseteq emitted[1].data
    /\ emitted[2].text = "out of memory"

\* C12: classifying a stderr record changes neither isRunning nor the process
\* handle, and the record is appended to gameOutput and emitted on the output
\* feed with its text as it is, whether or not a rule matches
C12_ClassificationIsAdvisory ==
    [][(HasEvent(emitted', "game-output") /\ emitted'[1].kind = "stderr") =>
        /\ UNCHANGED <<isRunning, gameProcess, procs>>
        /\ gameOutput' = Append(gameOutput, [type |-> "stderr", data |-> emitted'[1].data,
                                             timestamp |-> now])
        /\ \A i \in 2..Len(emitted') : emitted'[i].data = emitted'[1].data]_vars

\* a stderr record that matches a rule was appended while the session runs
C12_Witness ==
    /\ Len(emitted) = 2
    /\ emitted[1].type = "game-output" /\ emitted[1].kind = "stderr"
    /\ emitted[2].type = "game-error-detected"
    /\ gameOutput # <<>>
    /\ gameOutput[Len(gameOutput)] = [type |-> "stderr", data |-> emitted[1].data,
                                      timestamp |-> now]
    /\ isRunning /\ gameProcess = emitted[1].proc

\* the capacity of the output buffer (the specification's example is 1000)
BufferCapacity == 1

\* C13: the output buffer never holds more records than its capacity
C13_OutputBufferBounded == Len(gameOutput) <= BufferCapacity

\* C14: every candidate of the discovered list has an integer version >= 1
C14_CandidatesHaveIntegerVersion ==
    \A i \in 1..Len(javaVersions) :
        javaVersions[i].version.k = "num" /\ javaVersions[i].version.n >= 1

\* the probe of a path succeeds: its command ends normally and a line of its
\* output names a version
ProbeSucceeds(javaPath) ==
    /\ ~Hangs(javaPath)
    /\ \E i \in 1..Len(ExecVersion(javaPath)) :
          ExecVersion(javaPath)[i].quoted # <<>> \/ ExecVersion(javaPath)[i].build # <<>>

\* C15: whichever probes fail, a completed detectJavaVersions holds exactly
\* the candidates of the probes that succeeded, each once
C15_FailedProbesAreSkipped ==
    HasEvent(emitted, "java-versions-detected") =>
        /\ ~detecting
        /\ { javaVersions[i].path : i \in 1..Len(javaVersions) } =
              { ProbedPaths(host)[k] : k \in { j \in 1..Len(ProbedPaths(host)) :
                                                  ProbeSucceeds(ProbedPaths(host)[j]) } }
        /\ \A i, j \in 1..Len(javaVersions) :
              i # j => javaVersions[i].path # javaVersions[j].path
        /\ \A i \in 1..Len(javaVersions) :
              javaVersions[i] = parseJavaVersion(ExecVersion(javaVersions[i].path),
                                                 javaVersions[i].path)

\* a scan whose first probe failed and whose second succeeded has completed
C15_Witness ==
    /\ HasEvent(emitted, "java-versions-detected")
    /\ host.common = <<"/missing", "/j17">>
    /\ host.which = "/notjava"
    /\ Len(javaVersions) = 1

\* C16: a scan with one probe that never returns still completes
C16_HungProbeDoesNotStall ==
    (detecting /\ Cardinality({ k \in 1..Len(ProbedPaths(host)) :
                                    Hangs(ProbedPaths(host)[k]) }) = 1)
        ~> ~detecting

C18_ArgumentsAreDeterministic ==
    [][(/\ result.op = "prepareLaunchArguments"
        /\ result'.op = "prepareLaunchArguments"
        /\ result'.input = result.input)
       => (result'.threw = result.threw /\ result'.value = result.value)]_vars

\* C19: the first argument is -Xmx{M}M for the memory M of the request, or for
\* the configured memory when the request has none, and the second is an
\* -Xms flag of at most that size
C19_HeapFlagsFollowMemory ==
    (result.op \in {"prepareLaunchArguments", "generateJVMArgs"} /\ result.threw = "") =>
        LET M == IF result.input.memory # 0 THEN result.input.memory ELSE config.memory
        IN  /\ result.value[1] = ArgN("-Xmx", M, "M")
            /\ result.value[2].f = "-Xms" /\ result.value[2].hasN
            /\ result.value[2].s = <<"M">>
            /\ result.value[2].n <= M

\* C20: validateJava does not throw for a runtime older than Java 8
C20_ValidateReturnsIncompatibility ==
    (/\ result.op = "validateJava"
     /\ LET info == parseJavaVersion(ExecVersion(result.input), result.input)
        IN  info.isValid /\ info.version.k = "num" /\ info.version.n < 8)
    => result.threw = ""

\* the error of the account precondition that fails for an account, "" if none
AccountFailure(account) ==
    IF ~account.present \/ account.username = "" THEN ErrAccount
    ELSE IF account.type = "microsoft" /\ account.accessToken = "" THEN ErrToken
    ELSE ""

\* C21: a launch whose runtime and version are valid and whose account is
\* absent, has no username, or is a microsoft account without access token
\* fails with the error of that precondition, and a launch-failed event with
\* that message is emitted
C21_AccountErrorIsSurfaced ==
    (/\ done.slot # 0
     /\ done.javaInfo.isValid
     /\ done.cfg.version.id \in InstalledVersions
     /\ AccountFailure(done.cfg.account) # "")
    => /\ done.error = AccountFailure(done.cfg.account)
       /\ emitted = <<Event("game-launch-failed", 0, 0, "", "", AccountFailure(done.cfg.account))>>

\* the lifecycle events that end a session
TerminalEvents == {"game-exit", "game-error", "game-stopped", "game-killed"}

\* C22: each session produces at most one terminal lifecycle event (exited,
\* failed, stopped or killed): once one was emitted for a child process, no
\* later event of that process emits another
C22_OneTerminalEventPerSession ==
    \A p \in Procs :
        Cardinality({e \in log : e[2] = p /\ e[1] \in TerminalEvents}) <= 1

\* child process q was stopped or killed, and a later launch has made
\* another child the running session
Superseded(q) ==
    /\ \E e \in log : e[2] = q /\ e[1] \in {"game-stopped", "game-killed"}
    /\ gameProcess # 0
    /\ gameProcess # q
    /\ isRunning

\* C23: after stopGame or forceKillGame and a new successful launchGame, the
\* late 'close' or 'error' of the earlier child process leaves the new
\* session's isRunning, process handle and output buffer unchanged
C23_LateEventLeavesNewSession ==
    [][ \A q \in Procs :
            (/\ Superseded(q)
             /\ IF emitted' = <<>> THEN FALSE
                ELSE emitted'[1].proc = q /\ emitted'[1].type \in {"game-exit", "game-error"})
            => UNCHANGED session ]_vars

\* the banner has a line with a quoted version
HasQuoted(output) == \E i \in 1..Len(output) : output[i].quoted # <<>>

\* the version the banner's first quoted version names: the minor of
\* "1.<minor>...", else the integer before the first '.'
QuotedVersion(output) ==
    LET i == CHOOSE k \in 1..Len(output) :
                 output[k].quoted # <<>> /\ \A j \in 1..(k - 1) : output[j].quoted = <<>>
        parts == SplitDot(output[i].quoted)
    IN  IF Len(parts) > 1 /\ parts[1] = <<"1">> THEN ParseInt(parts[2]) ELSE ParseInt(parts[1])

\* C24: the version parsed from a banner is the one its quoted version
\* names (the minor of "1.<minor>...", else the leading integer); the later
\* lines of the banner, such as the VM's (build ...) line, do not change it
C24_VersionFromQuotedLine ==
    \A p \in JavaPaths :
        (/\ javaCache[p].isValid
         /\ HasQuoted(ExecVersion(p))
         /\ QuotedVersion(ExecVersion(p)) # NaN)
        => javaCache[p].version = NumV(QuotedVersion(ExecVersion(p)))

\* every keyword of every line of the banner, as one line
WholeBanner(output) == Line(<<>>, <<>>, UNION {output[i].kws : i \in 1..Len(output)})

\* C25: the vendor parsed from a banner is the highest-priority vendor
\* keyword present anywhere in it (OpenJDK, Oracle, Adoptium, Microsoft,
\* Zulu, Corretto), whatever line it is on
C25_VendorByPriority ==
    \A p \in JavaPaths :
        javaCache[p].isValid => javaCache[p].vendor = LineVendor(WholeBanner(ExecVersion(p)))

\* a >= b of JavaScript for two version values
VersionGeq(a, b) ==
    IF a.k = "str" /\ b.k = "str" THEN a.s = b.s
    ELSE ToNumber(a) # NaN /\ ToNumber(b) # NaN /\ ToNumber(a) >= ToNumber(b)

\* C26: the discovery result has no two candidates with the same version
\* and path, and is ordered by version descending: of each adjacent pair the
\* earlier version is >= the later
C26_CandidatesUniqueAndDescending ==
    /\ \A i, j \in 1..Len(javaVersions) :
           (javaVersions[i].version = javaVersions[j].version
            /\ javaVersions[i].path = javaVersions[j].path) => i = j
    /\ \A i \in 1..(Len(javaVersions) - 1) :
           VersionGeq(javaVersions[i].version, javaVersions[i + 1].version)

\* the strings of `entries` joined with the platform's path separator
RECURSIVE JoinPaths(_)
JoinPaths(entries) ==
    IF entries = <<>> THEN <<>>
    ELSE IF Len(entries) = 1 THEN Head(entries)
    ELSE Head(entries) \o <<Delimiter>> \o JoinPaths(Tail(entries))

\* the class path of a manifest: the artifact paths of its libraries in
\* manifest order, then the main client archive
ClasspathOf(manifest) ==
    LET artifacts == SelectSeq(manifest.libraries, LAMBDA lib : lib # "")
    IN  JoinPaths([i \in 1..Len(artifacts) |->
                      <<config.gameDirectory, "/libraries/", artifacts[i]>>]
                  \o << <<config.gameDirectory, "/versions/", manifest.id, "/", manifest.id, ".jar">> >>)

\* C27: in the arguments handed to the spawned process the class path is
\* that of the manifest validated for this launch (its library artifacts in
\* order, joined with the path separator, the client archive last), and no
\* ${classpath} or ${natives_directory} placeholder remains
C27_ClasspathOfValidatedManifest ==
    (done.slot # 0 /\ done.error = "" /\ done.proc # 0)
    => /\ \E i \in 2..Len(done.args) :
              /\ done.args[i - 1] = Arg("-cp")
              /\ done.args[i].s = ClasspathOf(Manifest(done.cfg.version.id))
       /\ \A i \in 1..Len(done.args) :
              IF i > 1 /\ done.args[i - 1] = Arg("--uuid") THEN TRUE
              ELSE \A j \in 1..Len(done.args[i].s) :
                       done.args[i].s[j] \notin {"${classpath}", "${natives_directory}"}

\* the three flags of lines 428-432
AddOpens ==
    << Arg("--add-opens=java.base/java.util.jar=ALL-UNNAMED"),
       Arg("--add-opens=java.base/java.lang=ALL-UNNAMED"),
       Arg("--add-opens=java.base/java.io=ALL-UNNAMED") >>

IsAddOpens(arg) == \E i \in 1..3 : AddOpens[i] = arg

\* C28: the arguments of a launch carry the three --add-opens flags, after
\* the thirteen base JVM arguments, if and only if the runtime's version is
\* at least 9; for a Java 8 runtime they carry none, and apart from the flags
\* the list is the same for both runtimes
C28_AddOpensFromJava9 ==
    [][(result'.op = "prepareLaunchArguments" /\ result'.threw = "") =>
        LET v == result'.value
            version == result'.input.javaInfo.version
        IN  /\ version.k = "num"
            /\ version.n >= 9 =>
                   /\ SubSeq(v, 14, 16) = AddOpens
                   /\ Len(SelectSeq(v, IsAddOpens)) = 3
            /\ version.n < 9 => SelectSeq(v, IsAddOpens) = <<>>
            /\ (/\ result.op = "prepareLaunchArguments" /\ result.threw = ""
                /\ result.input.account = result'.input.account
                /\ result.input.version = result'.input.version
                /\ result.input.memory = result'.input.memory
                /\ result.value[9] = v[9]
                /\ result.value[13] = v[13])
               => SelectSeq(result.value, LAMBDA a : ~IsAddOpens(a))
                     = SelectSeq(v, LAMBDA a : ~IsAddOpens(a))]_vars

\* the arguments of a launch for a Java 17 runtime: the three flags follow
\* the base JVM arguments, the game arguments follow the flags
C28_Witness ==
    /\ result.op = "prepareLaunchArguments"
    /\ result.threw = ""
    /\ result.input.javaInfo.version = NumV(17)
    /\ SubSeq(result.value, 14, 16) = AddOpens
    /\ result.value[17] = Arg("net.minecraft.client.main.Main")

\* C29: the game arguments end with --demo if and only if the account's type
\* is 'offline', and their --uuid argument is the account's uuid, or the
\* UUID synthesized from the username when the account has none
C29_DemoAndUUIDFollowAccount ==
    (result.op \in {"prepareLaunchArguments", "generateGameArgs"} /\ result.threw = "") =>
        LET v == result.value
            account == result.input.account
        IN  /\ (v[Len(v)] = Arg("--demo")) <=> (account.type = "offline")
            /\ \E i \in 1..(Len(v) - 1) :
                   /\ v[i] = Arg("--uuid")
                   /\ IF account.uuid # "" THEN v[i + 1].s = <<account.uuid>>
                      ELSE /\ Len(v[i + 1].s) = 36
                           /\ v[i + 1].s = generateOfflineUUID(account.username)

====
